---- MODULE Spec2Model ----
(***************************************************************************)
(* A model of the Luau C wrapper (src/luau/c/luau_wrapper.{h,cpp}): the    *)
(* state wrapper, the compile/load/protected-call pipeline, the stack      *)
(* marshalling layer and the external callback dispatcher.                 *)
(*                                                                         *)
(* The Luau VM itself (lua.h, lualib.h, luacode.h) is an external library: *)
(* its value stack, its globals, its compiler and its loader are modelled  *)
(* by what the wrapper relies on.  Guest programs are a small fixed set of *)
(* one-statement chunks.                                                   *)
(***************************************************************************)
EXTENDS Integers, Sequences, FiniteSets, TLC

VARIABLES
    wr,        \* the LuauState wrappers: handle -> struct LuauState
    stack,     \* the value stack of the C frame that is executing host code
    globals,   \* the VM's global table
    frames,    \* suspended protected calls, each with a dispatcher running above it
    bytecode,  \* the host's (out_bytecode, out_len) pair handed to luau_compile
    lastSet,   \* the dispatcher last handed to luau_setexternalcallback on the root
    ev,        \* what the last interface call did and returned to its caller
    vm         \* the VM's heap: its teardown, the freed wrappers, its coroutine

vars == <<wr, stack, globals, frames, bytecode, lastSet, ev, vm>>

(* ------------------------------ bounds -------------------------------- *)

\* the most values the VM's stack holds, over all its C frames
MaxStack == 2

(* ------------------------- program constants -------------------------- *)

LUAU_OK == 0
LUAU_ERR_COMPILE == 1
LUAU_ERR_RUNTIME == 2
LUAU_ERR_MEMORY == 3
LUAU_ERR_INVALID == 4
LUA_MULTRET == -1

NULL == "NULL"

\* The wrapper made by luau_new ("root") and a wrapper whose VM handle is
\* null ("zero"); NULL is the null wrapper pointer.
Wrappers == {"root", "zero"}
Handles == {NULL} \cup Wrappers

\* The host's dispatcher functions.
Dispatchers == {"c1", "c2"}

(* ------------------------------ values -------------------------------- *)

Nil == [t |-> "nil"]
Str(s) == [t |-> "string", s |-> s]
Num(n) == [t |-> "number", n |-> n]
Table == [t |-> "table"]
\* a Lua function made by luau_load from the bytecode of `src`
LuaFn(src) == [t |-> "function", f |-> "lua", src |-> src]
\* lua_pushcclosure(external_func_wrapper, debugname, 2) over two upvalues
CClosure(up) == [t |-> "function", f |-> "external_func_wrapper", up |-> up]

IsExternal(v) == v.t = "function" /\ v.f = "external_func_wrapper"

lua_isstring(v) == v.t \in {"string", "number"}
lua_tostring(v) == IF v.t = "string" THEN v.s ELSE ToString(v.n)

(* ------------------- 64-bit identifiers, 16-bit limbs ----------------- *)

\* A uint64_t is <<w3, w2, w1, w0>>, most significant limb first; a
\* uint32_t is <<w1, w0>>.
W16 == 2^16
Zero64 == <<0, 0, 0, 0>>

\* static_cast<uint32_t>(callback_id & 0xFFFFFFFF)
Low32(id) == <<id[3], id[4]>>
\* static_cast<uint32_t>(callback_id >> 32)
High32(id) == <<id[1], id[2]>>
\* static_cast<int>(uint32_t): two's complement
ToInt(u) == (IF u[1] >= 32768 THEN u[1] - W16 ELSE u[1]) * W16 + u[2]
\* static_cast<uint32_t>(int)
ToUint32(i) == LET w0 == i % W16 IN <<((i - w0) \div W16) % W16, w0>>
\* (static_cast<uint64_t>(id_high) << 32) | id_low
Join64(hi, lo) == <<hi[1], hi[2], lo[1], lo[2]>>

\* The identifiers the host registers: a small one, and one with bit 31
\* and bit 63 set.
Ids == << <<0, 0, 0, 7>>, <<32768, 0, 32768, 1>> >>
CallbackIds == {Ids[1], Ids[2]}

(* ---------------------- the guest compiler and loader ------------------ *)

\* Guest sources, by their text.
Malformed == {"x = = 1"}
WellFormed == {"return", "return 7", "error('boom', 0)", "error('', 0)", "error({})",
               "return f()", "pcall(f)", "return g()", "return coroutine.yield(1)",
               "return f(5)", "return coroutine.wrap(f)(5)"}
Sources == Malformed \cup WellFormed

\* What a well-formed chunk does when it runs.  (error with level 0 raises
\* its message as it is, without a position in front.)
Program(src) ==
    CASE src = "return" -> [op |-> "ret", vals |-> <<>>]
      [] src = "return 7" -> [op |-> "ret", vals |-> <<Num(7)>>]
      [] src = "error('boom', 0)" -> [op |-> "error", v |-> Str("boom")]
      [] src = "error('', 0)" -> [op |-> "error", v |-> Str("")]
      [] src = "error({})" -> [op |-> "error", v |-> Table]
      [] src = "return f()" -> [op |-> "call", name |-> "f"]
      [] src = "pcall(f)" -> [op |-> "pcall", name |-> "f"]
      [] src = "return g()" -> [op |-> "call", name |-> "g"]
      [] src = "return coroutine.yield(1)" -> [op |-> "yield", vals |-> <<Num(1)>>]
      [] src = "return f(5)" -> [op |-> "call", name |-> "f", args |-> <<Num(5)>>]
      [] src = "return coroutine.wrap(f)(5)" ->
            [op |-> "cocall", name |-> "f", args |-> <<Num(5)>>]

\* the arguments a chunk's call passes
Args(p) == IF "args" \in DOMAIN p THEN p.args ELSE <<>>

\* the null char* in place of a buffer
NullBuffer == [nullptr |-> TRUE]

\* luacode.h luau_compile(source, size, options, &outsize): NULL when the
\* allocation fails; else a buffer whose first byte `ver` is 0, followed by
\* the message, for a source that does not parse; else the bytecode, whose
\* first byte is its version.  `len` is the buffer's size.
luacode_compile(source, oom) ==
    IF oom THEN NullBuffer
    ELSE IF source \in Malformed
         THEN [ver |-> 0, len |-> 2,
               msg |-> ":1: Incomplete statement: expected assignment or a function call"]
         ELSE [ver |-> 6, len |-> 2, src |-> source]

\* A buffer that is no bytecode of this VM's version.
Garbage == [ver |-> 99, len |-> 1, msg |-> ""]

\* luaO_chunkid for a chunkname that starts with '='
chunkid(chunkname) == IF chunkname = "=chunk" THEN "chunk" ELSE "main"

\* lua.h luau_load(L, chunkname, data, size, env): 0 and the function
\* pushed, or 1 and the error message pushed.
luau_load(chunkname, bc) ==
    IF bc.ver = 0
    THEN [status |-> 1, v |-> Str(chunkid(chunkname) \o bc.msg)]
    ELSE IF bc.ver # 6
         THEN [status |-> 1, v |-> Str(chunkid(chunkname) \o ": bytecode version mismatch")]
         ELSE [status |-> 0, v |-> LuaFn(bc.src)]

(* ------------------------------ wrappers ------------------------------ *)

\* struct LuauState
LuauState(L) ==
    [L |-> L, lastError |-> "", externalCallback |-> NULL, currentCallbackId |-> Zero64]

\* the negation of the guard `!L || !L->L` that opens the operations
Valid(h) == h # NULL /\ wr[h].L # NULL

\* The wrappers luau_newthread allocates, and what the model keeps of each:
\* the wrapper ("none" before luau_newthread, "live", "freed" once
\* luau_close_thread deleted it), the VM thread it stands for ("none",
\* "live", "closed" once lua_close destroyed the heap), the thread's status,
\* its own stack, and the wrapper's last error.
CoWrappers == {"co1", "co2"}
NoThread ==
    [wrapper |-> "none", thread |-> "none", status |-> 0, stack |-> <<>>,
     lastError |-> ""]

\* get_luau_state: the wrapper luau_new stored in the registry under "_luau_state"
get_luau_state == "root"

\* An error capture that leaves the error value on the stack.
capture_error_keep(W, h, stk, dflt) ==
    LET top == stk[Len(stk)] IN
    [wr |-> [W EXCEPT ![h].lastError = IF lua_isstring(top) THEN lua_tostring(top) ELSE dflt],
     stack |-> stk]

\* The idiom after a failed luau_load or lua_pcall: a string (or number)
\* error value becomes the last error and is popped; any other value is
\* left on the stack and `dflt` becomes the last error.
capture_error(W, h, stk, dflt) ==
    LET top == stk[Len(stk)] IN
    IF lua_isstring(top)
    THEN [wr |-> [W EXCEPT ![h].lastError = lua_tostring(top)],
          stack |-> SubSeq(stk, 1, Len(stk) - 1)]
    ELSE [wr |-> [W EXCEPT ![h].lastError = dflt], stack |-> stk]

(* --------------------------- the VM's calls --------------------------- *)

\* A reassembly that widens the signed low half before the OR, so that its
\* sign runs into the high half.
callback_id_signext(up) ==
    IF up[1].n < 0
    THEN Join64(<<W16 - 1, W16 - 1>>, ToUint32(up[1].n))
    ELSE Join64(ToUint32(up[2].n), ToUint32(up[1].n))

\* callback_id rebuilt by external_func_wrapper from its two upvalues
callback_id(up) == Join64(ToUint32(up[2].n), ToUint32(up[1].n))

\* The values a call leaves, adjusted to nresults.
Adjust(vals, nresults) ==
    IF nresults = LUA_MULTRET THEN vals
    ELSE [i \in 1..nresults |-> IF i <= Len(vals) THEN vals[i] ELSE Nil]

\* A trampoline that returns one result when no dispatcher is set.
external_func_wrapper_one(W, fv, gp) ==
    IF W[get_luau_state].externalCallback = NULL
    THEN [k |-> "ret", vals |-> <<Nil>>, ext |-> "noop"]
    ELSE [k |-> "ext", id |-> callback_id(fv.up), gp |-> gp]

\* external_func_wrapper up to the call of the dispatcher: without a
\* dispatcher it returns 0 results; with one, control passes to the host.
external_func_wrapper(W, fv, gp) ==
    IF W[get_luau_state].externalCallback = NULL
    THEN [k |-> "ret", vals |-> <<>>, ext |-> "noop"]
    ELSE [k |-> "ext", id |-> callback_id(fv.up), gp |-> gp]

\* The call that reached the dispatcher, with the thread it runs in (inco:
\* a coroutine the guest made with coroutine.wrap, not the main thread) and
\* the arguments in its frame on that thread's stack.
InThread(out, inco, args) ==
    IF out.k = "ext" THEN out @@ [inco |-> inco, args |-> args] ELSE out

\* What calling the value fv does in the VM, until it returns, raises or
\* reaches a dispatched external function.  gp: the external function is
\* called under the guest's own pcall.
Call(W, fv, gl) ==
    IF fv.t = "function" /\ fv.f = "lua"
    THEN LET p == Program(fv.src) IN
         CASE p.op = "ret" -> [k |-> "ret", vals |-> p.vals, ext |-> "none"]
           [] p.op = "error" -> [k |-> "err", v |-> p.v]
           [] p.op = "yield" -> [k |-> "err", v |-> Str("attempt to yield across metamethod/C-call boundary")]
           [] p.op \in {"call", "pcall", "cocall"} ->
                IF IsExternal(gl[p.name])
                THEN InThread(external_func_wrapper(W, gl[p.name], p.op = "pcall"),
                              p.op = "cocall", Args(p))
                ELSE IF p.op = "pcall"
                     THEN [k |-> "ret", vals |-> <<>>, ext |-> "none"]
                     ELSE [k |-> "err", v |-> Str("attempt to call a nil value")]
    ELSE IF IsExternal(fv)
         THEN InThread(external_func_wrapper(W, fv, FALSE), FALSE, <<>>)
         ELSE [k |-> "err", v |-> Str("attempt to call a " \o fv.t \o " value")]

\* lua_pcall(L, nargs, nresults, 0) once the called function has ended
\* with `out`: the function and its arguments are replaced by the results,
\* or by the error value.
lua_pcall(base, nresults, out) ==
    IF out.k = "ret"
    THEN [status |-> 0, stack |-> base \o Adjust(out.vals, nresults)]
    ELSE [status |-> 2, stack |-> base \o <<out.v>>]

\* A tail of luau_dostring that reports a raised error as a compile failure.
dostring_finish_compile(W, h, res) ==
    IF res.status # 0
    THEN LET cap == capture_error(W, h, res.stack, "Runtime error") IN
         [wr |-> cap.wr, stack |-> cap.stack, rc |-> LUAU_ERR_COMPILE]
    ELSE [wr |-> W, stack |-> res.stack, rc |-> LUAU_OK]

\* luau_dostring from the return of lua_pcall on
dostring_finish(W, h, res) ==
    IF res.status # 0
    THEN LET cap == capture_error(W, h, res.stack, "Runtime error") IN
         [wr |-> cap.wr, stack |-> cap.stack, rc |-> LUAU_ERR_RUNTIME]
    ELSE [wr |-> W, stack |-> res.stack, rc |-> LUAU_OK]

\* luau_pcall from the return of lua_pcall on
pcall_finish(W, h, res) ==
    IF res.status # 0
    THEN LET cap == capture_error(W, h, res.stack, "Runtime error") IN
         [wr |-> cap.wr, stack |-> cap.stack, rc |-> LUAU_ERR_RUNTIME]
    ELSE [wr |-> W, stack |-> res.stack, rc |-> LUAU_OK]

Finish(api, W, h, res) ==
    IF api = "luau_dostring" THEN dostring_finish(W, h, res) ELSE pcall_finish(W, h, res)

(* ------------------------------- events ------------------------------- *)

\* What an interface call hands back: the operation, the wrapper it was
\* called with, its main argument, its result, and what happened to an
\* external function on the way: "none", "run" (a coroutine's guest code
\* ran, with no external function), "noop" (invoked without a
\* dispatcher), "enter" (the dispatcher was called), "return" (the
\* dispatcher returned) or "raise" (the dispatcher raised a guest error).
Event(op, h, arg, r, ext) == [op |-> op, h |-> h, arg |-> arg, r |-> r, ext |-> ext]

\* The operation is running host code at the top level or inside a dispatcher.
InDispatcher == frames # <<>>
Top == frames[Len(frames)]

\* The slots of the VM's stack below the executing C frame, and whether n
\* more values fit above the values stk of the executing frame.
Below(fs) ==
    LET used[i \in 0..Len(fs)] == IF i = 0 THEN 0 ELSE used[i - 1] + Len(fs[i].base)
    IN used[Len(fs)]
Fits(fs, stk, n) == Below(fs) + Len(stk) + n <= MaxStack

(* ------------------------------- Init --------------------------------- *)

\* luau_new for "root"; "zero" is a wrapper whose VM handle is null.
Init ==
    /\ wr = [h \in Wrappers |-> LuauState(IF h = "root" THEN "vm" ELSE NULL)]
    /\ stack = <<>>
    /\ globals = [n \in {"f", "g"} |-> Nil]
    /\ frames = <<>>
    /\ bytecode = [buf |-> NullBuffer, len |-> 0]
    /\ lastSet = NULL
    /\ ev = Event("luau_new", "root", NULL, "root", "none")
    /\ vm = [closes |-> 0, freed |-> {}, co |-> [c \in CoWrappers |-> NoThread]]

(* ----------------------- running a protected call ---------------------- *)

\* The rest of a protected call of the value fv made by `api` on wrapper h
\* over the stack `base`, with the wrappers as W: the call ends at once, or
\* control passes to the dispatcher and the call is suspended in `frames`.
\* The dispatcher is handed the wrapper of the registry, whose VM handle is
\* the main thread: `stack` is then the main thread's executing frame, which
\* is the external function's own frame (its arguments) when the call runs
\* in the main thread, and the empty frame of the resuming library function
\* when the call runs in a coroutine.
\* No external function is invoked again while its own callback runs, which
\* bounds the nesting by the number of identifiers.
Run(api, W, h, arg, base, nresults, fv) ==
    LET out == Call(W, fv, globals) IN
    IF out.k = "ext"
    THEN LET state == get_luau_state IN
         /\ \A i \in 1..Len(frames) : frames[i].id # out.id
         /\ wr' = [W EXCEPT ![state].currentCallbackId = out.id]
         /\ frames' = Append(frames, [api |-> api, h |-> h, arg |-> arg, base |-> base,
                                      nresults |-> nresults, gp |-> out.gp, id |-> out.id,
                                      cb |-> W[state].externalCallback,
                                      inco |-> out.inco, args |-> out.args])
         /\ stack' = IF out.inco THEN <<>> ELSE out.args
         /\ Below(frames) + Len(base) + Len(stack') <= MaxStack
         /\ ev' = Event("dispatcher", state, out.id, W[state].externalCallback, "enter")
    ELSE LET fin == Finish(api, W, h, lua_pcall(base, nresults, out)) IN
         /\ Fits(frames, fin.stack, 0)
         /\ wr' = fin.wr
         /\ stack' = fin.stack
         /\ frames' = frames
         /\ ev' = Event(api, h, arg, fin.rc, IF out.k = "ret" THEN out.ext ELSE "none")

\* The rest of the suspended protected call once its external function has
\* ended with `out` ("return": the values it returned; "raise": its error).
Resume(W, out, how) ==
    LET fr == Top
        cont == IF out.k = "ret"
                THEN [k |-> "ret", vals |-> IF fr.gp THEN <<>> ELSE out.vals]
                ELSE IF fr.gp THEN [k |-> "ret", vals |-> <<>>] ELSE out
        fin == Finish(fr.api, W, fr.h, lua_pcall(fr.base, fr.nresults, cont))
    IN /\ Fits(SubSeq(frames, 1, Len(frames) - 1), fin.stack, 0)
       /\ wr' = fin.wr
       /\ stack' = fin.stack
       /\ frames' = SubSeq(frames, 1, Len(frames) - 1)
       /\ ev' = Event(fr.api, fr.h, fr.arg, fin.rc, how)

(* --------------------------- script execution -------------------------- *)

luau_dostring(h, source, source_len, chunkname, oom) ==
    IF ~Valid(h) \/ source = NULL
    THEN /\ ev' = Event("luau_dostring", h, <<source, oom>>, LUAU_ERR_INVALID, "none")
         /\ UNCHANGED <<wr, stack, globals, frames, bytecode, lastSet, vm>>
    ELSE LET W == [wr EXCEPT ![h].lastError = ""]
             name == IF chunkname = NULL THEN "=chunk" ELSE chunkname
             bc == luacode_compile(source, oom)
         IN /\ UNCHANGED <<globals, bytecode, lastSet, vm>>
            /\ IF bc = NullBuffer
               THEN /\ wr' = [W EXCEPT ![h].lastError = "Compilation failed"]
                    /\ ev' = Event("luau_dostring", h, <<source, oom>>, LUAU_ERR_COMPILE, "none")
                    /\ UNCHANGED <<stack, frames>>
               ELSE LET ld == luau_load(name, bc) IN
                    IF ld.status # 0
                    THEN LET cap == capture_error(W, h, Append(stack, ld.v), "Load failed") IN
                         /\ wr' = cap.wr
                         /\ stack' = cap.stack
                         /\ ev' = Event("luau_dostring", h, <<source, oom>>, LUAU_ERR_COMPILE, "none")
                         /\ UNCHANGED frames
                    ELSE Run("luau_dostring", W, h, <<source, oom>>, stack, LUA_MULTRET, ld.v)

\* What the guest compiler hands to luau_compile: its buffer, or, for the
\* fault "oom", none, or, for the fault "empty", a buffer of size 0 (which
\* has no first byte).
CompilerFaults == {"none", "oom", "empty"}
EmptyBuffer == [len |-> 0]
Compiled(source, fault) ==
    IF fault = "empty" THEN EmptyBuffer ELSE luacode_compile(source, fault = "oom")

\* A luau_compile that also writes its outputs when it rejects its arguments.
luau_compile_zero(source, out_bytecode, out_len, fault) ==
    /\ UNCHANGED <<wr, stack, globals, frames, lastSet, vm>>
    /\ IF source = NULL \/ out_bytecode = NULL \/ out_len = NULL
       THEN /\ ev' = Event("luau_compile", NULL, <<source, out_bytecode, out_len, fault>>, LUAU_ERR_INVALID, "none")
            /\ bytecode' = IF out_bytecode # NULL /\ out_len # NULL
                           THEN [buf |-> NullBuffer, len |-> 0] ELSE bytecode
       ELSE LET bc == Compiled(source, fault) IN
            IF bc = NullBuffer \/ bc.len = 0 \/ bc.ver = 0
            THEN /\ bytecode' = [buf |-> NullBuffer, len |-> 0]
                 /\ ev' = Event("luau_compile", NULL, <<source, out_bytecode, out_len, fault>>, LUAU_ERR_COMPILE, "none")
            ELSE /\ bytecode' = [buf |-> bc, len |-> bc.len]
                 /\ ev' = Event("luau_compile", NULL, <<source, out_bytecode, out_len, fault>>, LUAU_OK, "none")

\* A luau_compile that does not look at the buffer's first byte.
luau_compile_unchecked(source, out_bytecode, out_len, fault) ==
    /\ UNCHANGED <<wr, stack, globals, frames, lastSet, vm>>
    /\ IF source = NULL \/ out_bytecode = NULL \/ out_len = NULL
       THEN /\ ev' = Event("luau_compile", NULL, <<source, out_bytecode, out_len, fault>>, LUAU_ERR_INVALID, "none")
            /\ UNCHANGED bytecode
       ELSE LET bc == Compiled(source, fault) IN
            IF bc = NullBuffer \/ bc.len = 0
            THEN /\ bytecode' = [buf |-> NullBuffer, len |-> 0]
                 /\ ev' = Event("luau_compile", NULL, <<source, out_bytecode, out_len, fault>>, LUAU_ERR_COMPILE, "none")
            ELSE /\ bytecode' = [buf |-> bc, len |-> bc.len]
                 /\ ev' = Event("luau_compile", NULL, <<source, out_bytecode, out_len, fault>>, LUAU_OK, "none")

luau_compile(source, out_bytecode, out_len, fault) ==
    /\ UNCHANGED <<wr, stack, globals, frames, lastSet, vm>>
    /\ IF source = NULL \/ out_bytecode = NULL \/ out_len = NULL
       THEN /\ ev' = Event("luau_compile", NULL, <<source, out_bytecode, out_len, fault>>, LUAU_ERR_INVALID, "none")
            /\ UNCHANGED bytecode
       ELSE LET bc == Compiled(source, fault) IN
            IF bc = NullBuffer \/ bc.len = 0
            THEN /\ bytecode' = [buf |-> NullBuffer, len |-> 0]
                 /\ ev' = Event("luau_compile", NULL, <<source, out_bytecode, out_len, fault>>, LUAU_ERR_COMPILE, "none")
            ELSE IF bc.len > 0 /\ bc.ver = 0
                 THEN /\ bytecode' = [buf |-> NullBuffer, len |-> 0]
                      /\ ev' = Event("luau_compile", NULL, <<source, out_bytecode, out_len, fault>>, LUAU_ERR_COMPILE, "none")
                 ELSE /\ bytecode' = [buf |-> bc, len |-> bc.len]
                      /\ ev' = Event("luau_compile", NULL, <<source, out_bytecode, out_len, fault>>, LUAU_OK, "none")

\* A luau_loadbytecode with a return code of its own kind for a failed load
\* (the code of a runtime failure, the enumeration having no other).
luau_loadbytecode_runtime(h, bc, chunkname) ==
    IF ~Valid(h) \/ bc = NullBuffer
    THEN /\ ev' = Event("luau_loadbytecode", h, bc, LUAU_ERR_INVALID, "none")
         /\ UNCHANGED <<wr, stack, globals, frames, bytecode, lastSet, vm>>
    ELSE LET W == [wr EXCEPT ![h].lastError = ""]
             ld == luau_load(IF chunkname = NULL THEN "=chunk" ELSE chunkname, bc)
         IN /\ UNCHANGED <<globals, frames, bytecode, lastSet, vm>>
            /\ IF ld.status # 0
               THEN LET cap == capture_error(W, h, Append(stack, ld.v), "Load failed") IN
                    /\ wr' = cap.wr
                    /\ stack' = cap.stack
                    /\ ev' = Event("luau_loadbytecode", h, bc, LUAU_ERR_RUNTIME, "none")
               ELSE /\ Fits(frames, stack, 1)
                    /\ wr' = W
                    /\ stack' = Append(stack, ld.v)
                    /\ ev' = Event("luau_loadbytecode", h, bc, LUAU_OK, "none")

luau_loadbytecode(h, bc, chunkname) ==
    IF ~Valid(h) \/ bc = NullBuffer
    THEN /\ ev' = Event("luau_loadbytecode", h, bc, LUAU_ERR_INVALID, "none")
         /\ UNCHANGED <<wr, stack, globals, frames, bytecode, lastSet, vm>>
    ELSE LET W == [wr EXCEPT ![h].lastError = ""]
             name == IF chunkname = NULL THEN "=chunk" ELSE chunkname
             ld == luau_load(name, bc)
         IN /\ UNCHANGED <<globals, frames, bytecode, lastSet, vm>>
            /\ IF ld.status # 0
               THEN LET cap == capture_error(W, h, Append(stack, ld.v), "Load failed") IN
                    /\ wr' = cap.wr
                    /\ stack' = cap.stack
                    /\ ev' = Event("luau_loadbytecode", h, bc, LUAU_ERR_COMPILE, "none")
               ELSE /\ Fits(frames, stack, 1)
                    /\ wr' = W
                    /\ stack' = Append(stack, ld.v)
                    /\ ev' = Event("luau_loadbytecode", h, bc, LUAU_OK, "none")

\* A luau_pcall that does not clear the last error before the call.
luau_pcall_noclear(h, nargs, nresults) ==
    IF ~Valid(h)
    THEN /\ ev' = Event("luau_pcall", h, nargs, LUAU_ERR_INVALID, "none")
         /\ UNCHANGED <<wr, stack, globals, frames, bytecode, lastSet, vm>>
    ELSE /\ Len(stack) >= nargs + 1
         /\ UNCHANGED <<globals, bytecode, lastSet, vm>>
         /\ Run("luau_pcall", wr, h, nargs,
                SubSeq(stack, 1, Len(stack) - nargs - 1), nresults,
                stack[Len(stack) - nargs])

luau_pcall(h, nargs, nresults) ==
    IF ~Valid(h)
    THEN /\ ev' = Event("luau_pcall", h, nargs, LUAU_ERR_INVALID, "none")
         /\ UNCHANGED <<wr, stack, globals, frames, bytecode, lastSet, vm>>
    ELSE /\ Len(stack) >= nargs + 1
         /\ UNCHANGED <<globals, bytecode, lastSet, vm>>
         /\ Run("luau_pcall", [wr EXCEPT ![h].lastError = ""], h, nargs,
                SubSeq(stack, 1, Len(stack) - nargs - 1), nresults,
                stack[Len(stack) - nargs])

(* ----------------------- external callback support --------------------- *)

\* A registration that keeps a dispatcher that is already set.
luau_setexternalcallback_keep(h, callback) ==
    /\ UNCHANGED <<stack, globals, frames, bytecode, vm>>
    /\ ev' = Event("luau_setexternalcallback", h, NULL, NULL, "none")
    /\ IF h = NULL
       THEN UNCHANGED <<wr, lastSet>>
       ELSE /\ wr' = IF wr[h].externalCallback = NULL
                     THEN [wr EXCEPT ![h].externalCallback = callback] ELSE wr
            /\ lastSet' = IF h = get_luau_state THEN callback ELSE lastSet

luau_setexternalcallback(h, callback) ==
    /\ UNCHANGED <<stack, globals, frames, bytecode, vm>>
    /\ ev' = Event("luau_setexternalcallback", h, NULL, NULL, "none")
    /\ IF h = NULL
       THEN UNCHANGED <<wr, lastSet>>
       ELSE /\ wr' = [wr EXCEPT ![h].externalCallback = callback]
            /\ lastSet' = IF h = get_luau_state THEN callback ELSE lastSet

\* The closure luau_pushexternalfunc pushes: the two halves of callback_id,
\* each through static_cast<int>, as the upvalues of external_func_wrapper.
pushexternalfunc(id) ==
    CClosure(<<Num(ToInt(Low32(id))), Num(ToInt(High32(id)))>>)

luau_pushexternalfunc(h, id) ==
    /\ UNCHANGED <<wr, globals, frames, bytecode, lastSet, vm>>
    /\ ev' = Event("luau_pushexternalfunc", h, id, NULL, "none")
    /\ IF ~Valid(h)
       THEN UNCHANGED stack
       ELSE /\ Fits(frames, stack, 1)
            /\ stack' = Append(stack, pushexternalfunc(id))

luau_registerexternal(h, name, id) ==
    /\ UNCHANGED <<wr, stack, frames, bytecode, lastSet, vm>>
    /\ ev' = Event("luau_registerexternal", h, <<name, id>>, NULL, "none")
    /\ IF ~Valid(h) \/ name = NULL
       THEN UNCHANGED globals
       ELSE globals' = [globals EXCEPT ![name] = pushexternalfunc(id)]

luau_getcallbackid(h) ==
    /\ UNCHANGED <<wr, stack, globals, frames, bytecode, lastSet, vm>>
    /\ ev' = Event("luau_getcallbackid", h, NULL,
                   IF h = NULL THEN Zero64 ELSE wr[h].currentCallbackId, "none")

\* The dispatcher returns n: external_func_wrapper clears the current
\* callback id and returns n; the top n values of the executing thread's
\* frame are the call's results.  (A count above the height of that frame
\* is not modelled.)
DispatcherReturn(n) ==
    /\ InDispatcher
    /\ n <= Len(stack)
    /\ LET frame == IF Top.inco THEN Top.args ELSE stack IN
       /\ n <= Len(frame)
       /\ UNCHANGED <<globals, bytecode, lastSet, vm>>
       /\ Resume([wr EXCEPT ![get_luau_state].currentCallbackId = Zero64],
                 [k |-> "ret", vals |-> SubSeq(frame, Len(frame) - n + 1, Len(frame))],
                 "return")

(* ---------------------------- error handling --------------------------- *)

\* A luau_geterror that hands out the empty string of an empty last error.
geterror_empty(W, h) ==
    IF h = NULL THEN NULL ELSE <<W[h].lastError>>

\* What luau_geterror returns: NULL without a wrapper or with an empty
\* last error, else the message (here in a tuple).
geterror(W, h) ==
    IF h = NULL \/ W[h].lastError = "" THEN NULL ELSE <<W[h].lastError>>

luau_geterror(h) ==
    /\ UNCHANGED <<wr, stack, globals, frames, bytecode, lastSet, vm>>
    /\ ev' = Event("luau_geterror", h, NULL, geterror(wr, h), "none")

luau_clearerror(h) ==
    /\ UNCHANGED <<stack, globals, frames, bytecode, lastSet, vm>>
    /\ ev' = Event("luau_clearerror", h, NULL, NULL, "none")
    /\ IF h # NULL THEN wr' = [wr EXCEPT ![h].lastError = ""] ELSE UNCHANGED wr

\* luau_error called by a dispatcher: lua_error leaves external_func_wrapper
\* without passing its last two statements, and the error reaches the
\* closest protected call.  Outside a protected call it is fatal by design,
\* and is not modelled.
luau_error(h, msg) ==
    /\ UNCHANGED <<globals, bytecode, lastSet, vm>>
    /\ IF ~Valid(h)
       THEN /\ ev' = Event("luau_error", h, msg, NULL, "none")
            /\ UNCHANGED <<wr, stack, frames>>
       ELSE /\ InDispatcher
            /\ msg = NULL => stack # <<>>
            /\ LET W == IF msg # NULL THEN [wr EXCEPT ![h].lastError = msg] ELSE wr
                   stk == IF msg # NULL THEN Append(stack, Str(msg)) ELSE stack
               IN Resume(W, [k |-> "err", v |-> stk[Len(stk)]], "raise")

(* --------------------------- stack operations -------------------------- *)

\* index2addr for an index that addresses a slot of the frame
Slot(idx) == IF idx > 0 THEN idx ELSE Len(stack) + idx + 1
ValidIndex(idx) == Slot(idx) \in 1..Len(stack)

luau_gettop(h) ==
    /\ UNCHANGED <<wr, stack, globals, frames, bytecode, lastSet, vm>>
    /\ ev' = Event("luau_gettop", h, NULL, IF ~Valid(h) THEN 0 ELSE Len(stack), "none")

\* lua_settop: a non-negative idx is the new height (new slots are nil), a
\* negative one counts from the top.
lua_settop(stk, idx) ==
    LET n == IF idx >= 0 THEN idx ELSE Len(stk) + idx + 1 IN
    [i \in 1..n |-> IF i <= Len(stk) THEN stk[i] ELSE Nil]

luau_settop(h, idx) ==
    /\ UNCHANGED <<wr, globals, frames, bytecode, lastSet, vm>>
    /\ ev' = Event("luau_settop", h, idx, NULL, "none")
    /\ IF ~Valid(h)
       THEN UNCHANGED stack
       ELSE /\ idx >= -(Len(stack) + 1)
            /\ idx >= 0 => Fits(frames, <<>>, idx)
            /\ stack' = lua_settop(stack, idx)

luau_pop(h, n) ==
    /\ UNCHANGED <<wr, globals, frames, bytecode, lastSet, vm>>
    /\ ev' = Event("luau_pop", h, n, NULL, "none")
    /\ IF ~Valid(h)
       THEN UNCHANGED stack
       ELSE /\ n <= Len(stack)
            /\ stack' = lua_settop(stack, -n - 1)

luau_pushnil(h) ==
    /\ UNCHANGED <<wr, globals, frames, bytecode, lastSet, vm>>
    /\ ev' = Event("luau_pushnil", h, NULL, NULL, "none")
    /\ IF ~Valid(h)
       THEN UNCHANGED stack
       ELSE /\ Fits(frames, stack, 1)
            /\ stack' = Append(stack, Nil)

luau_pushvalue(h, idx) ==
    /\ UNCHANGED <<wr, globals, frames, bytecode, lastSet, vm>>
    /\ ev' = Event("luau_pushvalue", h, idx, NULL, "none")
    /\ IF ~Valid(h)
       THEN UNCHANGED stack
       ELSE /\ ValidIndex(idx)
            /\ Fits(frames, stack, 1)
            /\ stack' = Append(stack, stack[Slot(idx)])

luau_remove(h, idx) ==
    /\ UNCHANGED <<wr, globals, frames, bytecode, lastSet, vm>>
    /\ ev' = Event("luau_remove", h, idx, NULL, "none")
    /\ IF ~Valid(h)
       THEN UNCHANGED stack
       ELSE /\ ValidIndex(idx)
            /\ stack' = SubSeq(stack, 1, Slot(idx) - 1) \o SubSeq(stack, Slot(idx) + 1, Len(stack))

luau_insert(h, idx) ==
    /\ UNCHANGED <<wr, globals, frames, bytecode, lastSet, vm>>
    /\ ev' = Event("luau_insert", h, idx, NULL, "none")
    /\ IF ~Valid(h)
       THEN UNCHANGED stack
       ELSE /\ ValidIndex(idx)
            /\ stack' = SubSeq(stack, 1, Slot(idx) - 1) \o <<stack[Len(stack)]>>
                        \o SubSeq(stack, Slot(idx), Len(stack) - 1)

luau_isnil(h, idx) ==
    /\ UNCHANGED <<wr, stack, globals, frames, bytecode, lastSet, vm>>
    /\ Valid(h) => ValidIndex(idx)
    /\ ev' = Event("luau_isnil", h, idx,
                   IF ~Valid(h) THEN 1 ELSE IF stack[Slot(idx)].t = "nil" THEN 1 ELSE 0,
                   "none")

(* --------------------------- the specification ------------------------- *)

\* the arguments the host passes
Indices == {-2, -1, 1, 2}
ChunkNames == {NULL, "=main"}
Pointers == {NULL, "ptr"}
Messages == {NULL, "", "oops"}
\* the buffers handed to luau_loadbytecode: none, the one luau_compile
\* returned, an encoded compile error, and one of a foreign version
Buffers == {NullBuffer, bytecode.buf, luacode_compile("x = = 1", FALSE), Garbage}

Next ==
    \/ \E h \in Handles, source \in Sources \cup {NULL}, z \in BOOLEAN,
          chunkname \in ChunkNames, oom \in BOOLEAN :
          luau_dostring(h, source, IF z \/ source = NULL THEN 0 ELSE Len(source), chunkname, oom)
    \/ \E source \in Sources \cup {NULL}, out_bytecode \in Pointers, out_len \in Pointers,
          fault \in CompilerFaults :
          luau_compile(source, out_bytecode, out_len, fault)
    \/ \E h \in Handles, bc \in Buffers, chunkname \in ChunkNames :
          luau_loadbytecode(h, bc, chunkname)
    \/ \E h \in Handles, nargs \in 0..1, nresults \in {LUA_MULTRET, 0, 1} :
          luau_pcall(h, nargs, nresults)
    \/ \E h \in Handles, callback \in Dispatchers \cup {NULL} :
          luau_setexternalcallback(h, callback)
    \/ \E h \in Handles, id \in CallbackIds : luau_pushexternalfunc(h, id)
    \/ \E h \in Handles, name \in {NULL, "f", "g"}, id \in CallbackIds :
          luau_registerexternal(h, name, id)
    \/ \E h \in Handles : luau_getcallbackid(h)
    \/ \E n \in 0..MaxStack : DispatcherReturn(n)
    \/ \E h \in Handles : luau_geterror(h)
    \/ \E h \in Handles : luau_clearerror(h)
    \/ \E h \in Handles, msg \in Messages : luau_error(h, msg)
    \/ \E h \in Handles : luau_gettop(h)
    \/ \E h \in Handles, idx \in -(MaxStack + 1)..MaxStack : luau_settop(h, idx)
    \/ \E h \in Handles, n \in 0..MaxStack : luau_pop(h, n)
    \/ \E h \in Handles : luau_pushnil(h)
    \/ \E h \in Handles, idx \in Indices : luau_pushvalue(h, idx)
    \/ \E h \in Handles, idx \in Indices : luau_remove(h, idx)
    \/ \E h \in Handles, idx \in Indices : luau_insert(h, idx)
    \/ \E h \in Handles, idx \in Indices : luau_isnil(h, idx)

Spec == Init /\ [][Next]_vars

(* ---------------- the external callback dispatcher alone --------------- *)

\* The calls that register, invoke and end external functions on the root
\* wrapper: Next with its inputs narrowed to them.
NextCallback ==
    \/ \E r \in {<<"f", 1>>, <<"g", 2>>} : luau_registerexternal("root", r[1], Ids[r[2]])
    \/ luau_pushexternalfunc("root", Ids[2])
    \/ \E callback \in Dispatchers \cup {NULL} : luau_setexternalcallback("root", callback)
    \/ \E source \in {"return f()", "pcall(f)", "return g()"} :
          luau_dostring("root", source, 0, NULL, FALSE)
    \/ luau_pcall("root", 0, LUA_MULTRET)
    \/ luau_getcallbackid("root")
    \/ \E n \in 0..MaxStack : DispatcherReturn(n)
    \/ luau_error("root", "oops")

SpecCallback == Init /\ [][NextCallback]_vars

(* ------------------- the execution pipeline alone ---------------------- *)

\* Compiling, loading and running chunks, and the last-error string, with
\* every kind of wrapper; one external function, so that a guest error is
\* also raised from host code.
ExecSources == {NULL, "x = = 1", "return 7", "error('boom', 0)", "error({})", "pcall(f)"}

NextExec ==
    \/ \E a \in ({"root"} \X ExecSources \X BOOLEAN) \cup ({NULL, "zero"} \X {NULL, "return 7"} \X {FALSE}) :
          \E chunkname \in IF a[2] = "x = = 1" THEN ChunkNames ELSE {NULL} :
             luau_dostring(a[1], a[2], IF a[2] = NULL \/ a[3] THEN 0 ELSE Len(a[2]), chunkname, a[3])
    \/ \E a \in ({"x = = 1", "return 7"} \X {<<"ptr", "ptr">>} \X CompilerFaults)
                 \cup ({NULL, "return 7"} \X (Pointers \X Pointers) \X {"none"}) :
          luau_compile(a[1], a[2][1], a[2][2], a[3])
    \/ \E h \in Handles, bc \in Buffers : luau_loadbytecode(h, bc, NULL)
    \/ \E h \in Handles : luau_pcall(h, 0, 0)
    \/ \E h \in Handles : luau_geterror(h)
    \/ \E h \in Handles : luau_clearerror(h)
    \/ luau_registerexternal("root", "f", Ids[1])
    \/ luau_setexternalcallback("root", "c1")
    \/ DispatcherReturn(0)
    \/ luau_error("root", "oops")

SpecExec == Init /\ [][NextExec]_vars

(* ------------------------------- claims -------------------------------- *)

\* The wrapper's current callback id, as luau_getcallbackid reads it.
CurrentId == wr["root"].currentCallbackId

\* C1: for an external function registered under K and invoked with a
\* dispatcher set, luau_getcallbackid read by the dispatcher inside that
\* call yields K, and read after the call has returned it yields 0.
C1_IdInsideCallAndAfter ==
    /\ (ev.op = "luau_getcallbackid" /\ ev.h = "root" /\ InDispatcher) => ev.r = Top.id
    /\ (ev.ext = "return" /\ ~InDispatcher) => CurrentId = Zero64

\* C9 as stated: an external function invoked without a dispatcher returns
\* zero results, runs no host code and leaves the current callback id at 0.
C9_NoDispatcherLeavesIdZero ==
    ev.ext = "noop" => CurrentId = Zero64

\* C9, amended: an external function invoked without a dispatcher returns
\* zero results (the protected call leaves nothing of it on the stack),
\* runs no host code and leaves the current callback id as it was; and an
\* invocation is such a no-op exactly when no dispatcher is set.
C9_NoDispatcherIsNoOp ==
    [][/\ ev'.ext = "noop" =>
            /\ lastSet = NULL
            /\ frames' = frames
            /\ wr'["root"].currentCallbackId = wr["root"].currentCallbackId
            /\ stack' = IF ev'.op = "luau_pcall"
                        THEN SubSeq(stack, 1, Len(stack) - 1) ELSE stack
            /\ ev'.r = LUAU_OK
       /\ ev'.ext = "enter" => lastSet # NULL]_vars

C9_Witness == ev.ext = "noop" /\ CurrentId # Zero64 /\ InDispatcher

\* C10: a wrapper has one dispatcher at a time: every invocation of an
\* external function calls the dispatcher handed to the latest
\* luau_setexternalcallback, once, whatever was set when the function was
\* registered, and no other dispatcher.
C10_LatestDispatcherOnly ==
    [][ev'.ext = "enter" =>
          /\ lastSet # NULL
          /\ ev'.r = lastSet
          /\ Len(frames') = Len(frames) + 1
          /\ frames'[Len(frames')].cb = lastSet
          /\ \A i \in 1..Len(frames) : frames'[i] = frames[i]]_vars

\* c2 replaced c1 while c1 was running, and was then called.
C10_Witness ==
    /\ Len(frames) = 2
    /\ frames[1].cb = "c1"
    /\ frames[2].cb = "c2"
    /\ ev.ext = "enter"

(* ------------------ claims about the execution pipeline ---------------- *)

\* the operations that return a LuauError and own the last-error string
Fallible == {"luau_dostring", "luau_loadbytecode", "luau_pcall"}
\* the return codes of a failure the VM reported
Failures == {LUAU_ERR_COMPILE, LUAU_ERR_RUNTIME}

\* C2: luau_dostring of a malformed source on a live wrapper returns
\* LUAU_ERR_COMPILE and luau_geterror then yields a non-empty message; the
\* failure leaves the VM stack, the globals and the wrapper (but for its
\* last error) as they were, and a luau_dostring of well-formed source that
\* follows it on the same wrapper is compiled and loaded ("return 7"
\* returns LUAU_OK with its value on the stack).
C2_CompileFailureKeepsWrapperUsable ==
    [][/\ (ev'.op = "luau_dostring" /\ Valid(ev'.h) /\ ev'.arg[1] \in Malformed) =>
            /\ ev'.r = LUAU_ERR_COMPILE
            /\ geterror(wr', ev'.h) # NULL
            /\ geterror(wr', ev'.h) # <<"">>
            /\ stack' = stack /\ globals' = globals /\ frames' = frames
            /\ wr' = [wr EXCEPT ![ev'.h].lastError = wr'[ev'.h].lastError]
       /\ (/\ ev.op = "luau_dostring" /\ Valid(ev.h) /\ ev.arg[1] \in Malformed
           /\ ev'.op = "luau_dostring" /\ ev'.h = ev.h /\ ev'.ext \in {"none", "noop"}
           /\ ev'.arg[1] \in WellFormed /\ ~ev'.arg[2]) =>
            /\ ev'.r \notin {LUAU_ERR_INVALID, LUAU_ERR_COMPILE}
            /\ ev'.arg[1] = "return 7" =>
                  ev'.r = LUAU_OK /\ stack' = Append(stack, Num(7))]_vars

\* a malformed source failed to compile over a stack that held values
C2_Witness ==
    /\ ev.op = "luau_dostring" /\ ev.h = "root" /\ ev.arg[1] \in Malformed
    /\ ev.r = LUAU_ERR_COMPILE
    /\ stack # <<>>
    /\ wr["root"].lastError # ""

\* C3: luau_dostring returns LUAU_ERR_INVALID exactly when the wrapper, its
\* VM handle or the source is null; otherwise LUAU_ERR_COMPILE exactly when
\* compiling or loading fails; otherwise LUAU_ERR_RUNTIME exactly when the
\* chunk raises an error (by itself, or from an external function that is
\* not called under the guest's pcall); otherwise LUAU_OK.
C3_DostringPartition ==
    [][ev'.op = "luau_dostring" =>
          LET h == ev'.h
              source == ev'.arg[1]
              bc == luacode_compile(source, ev'.arg[2])
              raises == IF ev'.ext \in {"return", "raise"}
                        THEN ev'.ext = "raise" /\ ~Top.gp
                        ELSE Call(wr, LuaFn(source), globals).k = "err"
          IN ev'.r = IF h = NULL \/ wr[h].L = NULL \/ source = NULL THEN LUAU_ERR_INVALID
                     ELSE IF bc = NullBuffer \/ luau_load("=chunk", bc).status # 0
                          THEN LUAU_ERR_COMPILE
                          ELSE IF raises THEN LUAU_ERR_RUNTIME ELSE LUAU_OK]_vars

\* a chunk raised a value that is no string
C3_Witness ==
    /\ ev.op = "luau_dostring" /\ ev.r = LUAU_ERR_RUNTIME
    /\ stack # <<>> /\ stack[Len(stack)] = Table
    /\ wr["root"].lastError = "Runtime error"

\* C4 as stated: the code of a failing luau_loadbytecode differs from the
\* code of a failing luau_compile (LUAU_ERR_COMPILE) and from the code of a
\* failing luau_pcall (LUAU_ERR_RUNTIME).
C4_LoadFailureHasOwnCode ==
    (ev.op = "luau_loadbytecode" /\ ev.r \notin {LUAU_OK, LUAU_ERR_INVALID})
        => ev.r \notin {LUAU_ERR_COMPILE, LUAU_ERR_RUNTIME}

\* C4, amended: with valid arguments luau_loadbytecode returns
\* LUAU_ERR_COMPILE when the load fails, the code luau_compile returns when
\* compiling fails; luau_pcall returns LUAU_ERR_RUNTIME when the call
\* raises, which differs from both; each returns LUAU_OK otherwise.
C4_LoadFailureIsCompileCode ==
    [][/\ (ev'.op = "luau_loadbytecode" /\ Valid(ev'.h) /\ ev'.arg # NullBuffer) =>
            ev'.r = IF luau_load("=chunk", ev'.arg).status # 0
                    THEN LUAU_ERR_COMPILE ELSE LUAU_OK
       /\ (ev'.op = "luau_compile" /\ NULL \notin {ev'.arg[1], ev'.arg[2], ev'.arg[3]}) =>
            ev'.r = IF bytecode'.buf = NullBuffer THEN LUAU_ERR_COMPILE ELSE LUAU_OK
       /\ (ev'.op = "luau_pcall" /\ Valid(ev'.h) /\ ev'.ext \in {"none", "noop"}) =>
            ev'.r = IF Call(wr, stack[Len(stack) - ev'.arg], globals).k = "err"
                    THEN LUAU_ERR_RUNTIME ELSE LUAU_OK
       /\ LUAU_ERR_COMPILE # LUAU_ERR_RUNTIME]_vars

\* a load of foreign bytecode failed with the code of a compile failure
C4_Witness ==
    /\ ev.op = "luau_loadbytecode" /\ ev.h = "root" /\ ev.arg = Garbage
    /\ ev.r = LUAU_ERR_COMPILE

\* C5 as stated: after a fallible operation on a wrapper has returned,
\* whatever its return code, the last error is none left by an earlier
\* operation: it is empty or the message of this call's failure.
C5_NoStaleErrorAfterAnyReturn ==
    (/\ ev.op \in Fallible /\ ev.h \in Wrappers /\ ev.ext \in {"none", "noop"}
     /\ wr[ev.h].lastError # "")
        => ev.r \in Failures

\* C5, amended: a fallible operation whose arguments pass validation clears
\* the last error at its start: when it returns LUAU_OK without having
\* called a dispatcher, and when it has reached a dispatcher, the last
\* error is empty.  A call rejected with LUAU_ERR_INVALID leaves the last
\* error (and the rest of the wrapper) as it was.
C5_ValidCallClearsAtStart ==
    [][/\ (ev'.op \in Fallible /\ ev'.ext \in {"none", "noop"} /\ ev'.r = LUAU_OK) =>
            wr'[ev'.h].lastError = ""
       /\ (ev'.ext = "enter") =>
            wr'[frames'[Len(frames')].h].lastError = ""
       /\ (ev'.op \in Fallible /\ ev'.r = LUAU_ERR_INVALID) => wr' = wr]_vars

\* a call was rejected after a failure, and the failure's message is kept
C5_Witness ==
    /\ ev.op = "luau_dostring" /\ ev.h = "root" /\ ev.r = LUAU_ERR_INVALID
    /\ wr["root"].lastError # ""

\* C6: luau_clearerror empties the last error and changes nothing else (VM
\* stack, globals, dispatcher, current callback id); a second
\* luau_clearerror right after changes nothing at all; luau_geterror yields
\* NULL, never an empty string, for an empty last error; and an empty last
\* error stays empty until an operation fails: a fallible operation returns
\* LUAU_ERR_COMPILE or LUAU_ERR_RUNTIME, or the host raises an error with
\* luau_error.
C6_ClearErrorIdempotent ==
    [][/\ (ev'.op = "luau_clearerror" /\ ev'.h # NULL) =>
            /\ wr' = [wr EXCEPT ![ev'.h].lastError = ""]
            /\ geterror(wr', ev'.h) = NULL
            /\ UNCHANGED <<stack, globals, frames, bytecode, lastSet, vm>>
       /\ (ev'.op = "luau_clearerror" /\ ev.op = "luau_clearerror" /\ ev'.h = ev.h) =>
            UNCHANGED <<wr, stack, globals, frames, bytecode, lastSet, vm>>
       /\ (ev'.op = "luau_geterror") =>
            IF ev'.h = NULL \/ wr[ev'.h].lastError = ""
            THEN ev'.r = NULL
            ELSE ev'.r = <<wr[ev'.h].lastError>>
       /\ \A h \in Wrappers :
            (wr[h].lastError = "" /\ wr'[h].lastError # "") =>
                \/ ev'.op \in Fallible /\ ev'.h = h /\ ev'.r \in Failures
                \/ ev'.ext = "raise"]_vars

\* the last error was cleared inside a running callback, over a stack that
\* holds values
C6_Witness ==
    /\ ev.op = "luau_clearerror" /\ ev.h = "root"
    /\ InDispatcher /\ CurrentId # Zero64
    /\ wr["root"].externalCallback # NULL
    /\ Below(frames) + Len(stack) > 0

\* C8: luau_dostring, luau_loadbytecode and luau_pcall with a null wrapper
\* or a null VM handle, luau_dostring with a null source, luau_loadbytecode
\* with a null buffer and luau_compile with a null source or a null output
\* pointer return LUAU_ERR_INVALID: the stack, the globals and the wrappers
\* are unchanged, no guest code runs, and the outputs of luau_compile are
\* not written.
C8_InvalidArgumentsTouchNothing ==
    [][(\/ ev'.op \in Fallible /\ (ev'.h = NULL \/ wr[ev'.h].L = NULL)
        \/ ev'.op = "luau_dostring" /\ ev'.arg[1] = NULL
        \/ ev'.op = "luau_loadbytecode" /\ ev'.arg = NullBuffer
        \/ ev'.op = "luau_compile" /\ NULL \in {ev'.arg[1], ev'.arg[2], ev'.arg[3]}) =>
            /\ ev'.r = LUAU_ERR_INVALID
            /\ ev'.ext = "none"
            /\ UNCHANGED <<wr, stack, globals, frames, bytecode, lastSet, vm>>]_vars

\* luau_compile was rejected for its null source while the outputs held the
\* bytecode of an earlier call
C8_Witness ==
    /\ ev.op = "luau_compile" /\ ev.r = LUAU_ERR_INVALID
    /\ ev.arg = <<NULL, "ptr", "ptr", "none">>
    /\ bytecode.buf # NullBuffer

(* --------------------- null and uninitialised wrappers ----------------- *)

\* Every modelled operation with a null wrapper and with a wrapper whose VM
\* handle is null, next to the calls on the root that build up state.
NextNull ==
    \/ \E h \in Handles : luau_gettop(h)
    \/ \E h \in Handles, idx \in {-1, 1} : luau_settop(h, idx)
    \/ \E h \in Handles : luau_pop(h, 1)
    \/ \E h \in Handles : luau_pushnil(h)
    \/ \E h \in Handles : luau_pushvalue(h, -1)
    \/ \E h \in Handles : luau_remove(h, 1)
    \/ \E h \in Handles : luau_insert(h, 1)
    \/ \E h \in Handles : luau_isnil(h, -1)
    \/ \E h \in Handles : luau_pushexternalfunc(h, Ids[1])
    \/ \E h \in Handles, name \in {NULL, "f"} : luau_registerexternal(h, name, Ids[1])
    \/ \E h \in Handles, callback \in {NULL, "c1"} : luau_setexternalcallback(h, callback)
    \/ \E h \in Handles : luau_getcallbackid(h)
    \/ \E h \in Handles : luau_geterror(h)
    \/ \E h \in Handles : luau_clearerror(h)
    \/ \E h \in Handles : luau_error(h, "oops")
    \/ \E h \in Handles : luau_pcall(h, 0, 0)
    \/ \E h \in Handles : luau_dostring(h, "error('boom', 0)", 0, NULL, FALSE)
    \/ \E h \in Handles : luau_loadbytecode(h, Garbage, NULL)
    \/ DispatcherReturn(0)

SpecNull == Init /\ [][NextNull]_vars

\* C7: an operation called with a null wrapper or with a wrapper whose VM
\* handle is null changes no wrapper and no VM state, and returns nothing,
\* zero, NULL or LUAU_ERR_INVALID (luau_isnil: 1, "is nil").
C7_NullWrapperIsNoOp ==
    [][(ev'.h \in {NULL, "zero"} /\ ev'.op # "luau_compile") =>
          /\ UNCHANGED <<wr, stack, globals, frames, bytecode>>
          /\ ev'.r = CASE ev'.op = "luau_getcallbackid" -> Zero64
                       [] ev'.op = "luau_gettop" -> 0
                       [] ev'.op = "luau_isnil" -> 1
                       [] ev'.op \in Fallible -> LUAU_ERR_INVALID
                       [] OTHER -> NULL]_vars

(* ------------------------ 64-bit callback identifiers ------------------ *)

\* The identifiers whose 16-bit limbs are each a boundary value: they cover
\* bit 15, bit 31, bit 47 and bit 63 set and clear, and all-ones halves.
IdLimbs == {0, 1, 32767, 32768, W16 - 1}
IdSpace == {<<a, b, c, d>> : a \in IdLimbs, b \in IdLimbs, c \in IdLimbs, d \in IdLimbs}

\* Registering the global f under any of these identifiers and calling it;
\* the host registers from the top level, not from inside a callback.
NextIds ==
    \/ ~InDispatcher /\ \E id \in IdSpace : luau_registerexternal("root", "f", id)
    \/ \E callback \in {NULL, "c1"} : luau_setexternalcallback("root", callback)
    \/ luau_dostring("root", "return f()", 0, NULL, FALSE)
    \/ luau_getcallbackid("root")
    \/ DispatcherReturn(0)

SpecIds == Init /\ [][NextIds]_vars

\* C11: when the global f has just been registered under the identifier K
\* and guest code calls f, the identifier the trampoline hands to the
\* dispatcher, and stores as the current callback id, is K, for every K of
\* IdSpace: the split into two halves stored through static_cast<int> and
\* the reassembly lose nothing.
C11_IdSplitIsLossless ==
    [][(/\ ev.op = "luau_registerexternal" /\ ev.h = "root" /\ ev.arg[1] = "f"
        /\ ev'.ext = "enter"
        /\ frames'[Len(frames')].api = "luau_dostring"
        /\ frames'[Len(frames')].arg[1] = "return f()") =>
            /\ ev'.arg = ev.arg[2]
            /\ frames'[Len(frames')].id = ev.arg[2]
            /\ wr'["root"].currentCallbackId = ev.arg[2]
            /\ callback_id(globals["f"].up) = ev.arg[2]]_vars

\* the dispatcher was handed an identifier with bit 63 and bit 31 set
C11_Witness ==
    /\ ev.ext = "enter"
    /\ ev.arg = <<32768, 0, W16 - 1, W16 - 1>>
    /\ CurrentId = <<32768, 0, W16 - 1, W16 - 1>>
    /\ globals["f"] = pushexternalfunc(<<32768, 0, W16 - 1, W16 - 1>>)

(* ----------------------- the stack after a load ------------------------ *)

\* C12: luau_loadbytecode with valid arguments either returns LUAU_OK with
\* the loaded function pushed on top of the stack as it was (height + 1),
\* or fails with the stack as it was before the call (the error value is
\* popped) and the error text of the loader in the last-error string.
C12_LoadBytecodeStack ==
    [][(ev'.op = "luau_loadbytecode" /\ Valid(ev'.h) /\ ev'.arg # NullBuffer) =>
          LET ld == luau_load("=chunk", ev'.arg) IN
          IF ev'.r = LUAU_OK
          THEN /\ ld.status = 0
               /\ Len(stack') = Len(stack) + 1
               /\ stack' = Append(stack, LuaFn(ev'.arg.src))
               /\ wr'[ev'.h].lastError = ""
          ELSE /\ ld.status # 0
               /\ Len(stack') = Len(stack)
               /\ stack' = stack
               /\ wr'[ev'.h].lastError = ld.v.s
               /\ wr'[ev'.h].lastError # ""]_vars

\* a load failed over a stack that held a value, which is still there
C12_Witness ==
    /\ ev.op = "luau_loadbytecode" /\ ev.h = "root" /\ ev.r # LUAU_OK
    /\ ev.arg = luacode_compile("x = = 1", FALSE)
    /\ Len(stack) = 1
    /\ wr["root"].lastError # ""

(* --------------------------- value marshalling ------------------------- *)

\* the null char* in place of a byte buffer (a byte is in 0..255)
NullBytes == <<-1>>

\* a string value of the VM made from bytes given with their length
LStr(bytes) == [t |-> "string", b |-> bytes]

\* the bytes of a string value (text, for a string made from text)
StrBytes(v) == IF "b" \in DOMAIN v THEN v.b ELSE v.s

\* static_cast<int64_t>(int): sign extension to <<w3, w2, w1, w0>>
ToInt64(i) == Join64(IF i < 0 THEN <<W16 - 1, W16 - 1>> ELSE <<0, 0>>, ToUint32(i))

\* lua_pushinteger(L, static_cast<lua_Integer>(n)): lua_Integer is the VM's
\* `int`, so the int64_t is cut to its low 32 bits; the VM keeps the int
\* as a number.
lua_pushinteger(n) == Num(ToInt(Low32(n)))

\* lua_tointeger(L, idx): the number as an int; 0 for a value that is no
\* number (the strings of the model are not numerals).
lua_tointeger(v) == IF v.t = "number" THEN v.n ELSE 0

luau_pushinteger(h, n) ==
    /\ UNCHANGED <<wr, globals, frames, bytecode, lastSet, vm>>
    /\ ev' = Event("luau_pushinteger", h, n, NULL, "none")
    /\ IF ~Valid(h)
       THEN UNCHANGED stack
       ELSE /\ Fits(frames, stack, 1)
            /\ stack' = Append(stack, lua_pushinteger(n))

luau_tointeger(h, idx) ==
    /\ UNCHANGED <<wr, stack, globals, frames, bytecode, lastSet, vm>>
    /\ Valid(h) => ValidIndex(idx)
    /\ ev' = Event("luau_tointeger", h, idx,
                   IF ~Valid(h) THEN Zero64 ELSE ToInt64(lua_tointeger(stack[Slot(idx)])),
                   "none")

\* luau_pushlstring(L, s, len): the first len bytes of the buffer s, or nil
\* for a null s
luau_pushlstring(h, s, len) ==
    /\ UNCHANGED <<wr, globals, frames, bytecode, lastSet, vm>>
    /\ ev' = Event("luau_pushlstring", h, <<s, len>>, NULL, "none")
    /\ IF ~Valid(h)
       THEN UNCHANGED stack
       ELSE /\ Fits(frames, stack, 1)
            /\ stack' = Append(stack, IF s = NullBytes THEN Nil ELSE LStr(SubSeq(s, 1, len)))

\* luau_tolstring(L, idx, &len): the bytes and the length of a string
\* value; a number is first turned into its numeral, in its stack slot;
\* NULL for any other value.
luau_tolstring(h, idx) ==
    /\ UNCHANGED <<wr, globals, frames, bytecode, lastSet, vm>>
    /\ IF ~Valid(h)
       THEN /\ ev' = Event("luau_tolstring", h, idx, [s |-> NullBytes, len |-> 0], "none")
            /\ UNCHANGED stack
       ELSE /\ ValidIndex(idx)
            /\ LET v == stack[Slot(idx)] IN
               CASE v.t = "string" ->
                      /\ ev' = Event("luau_tolstring", h, idx,
                                     [s |-> StrBytes(v), len |-> Len(StrBytes(v))], "none")
                      /\ UNCHANGED stack
                 [] v.t = "number" ->
                      /\ ev' = Event("luau_tolstring", h, idx,
                                     [s |-> ToString(v.n), len |-> Len(ToString(v.n))], "none")
                      /\ stack' = [stack EXCEPT ![Slot(idx)] = Str(ToString(v.n))]
                 [] OTHER ->
                      /\ ev' = Event("luau_tolstring", h, idx, [s |-> NullBytes, len |-> 0], "none")
                      /\ UNCHANGED stack

\* The int64_t values and the byte buffers the host pushes: integers inside
\* and outside the range of an int, buffers with and without zero bytes.
Int64s == {Zero64, <<0, 0, 0, 7>>, <<0, 0, 32767, W16 - 1>>, <<0, 0, 32768, 0>>,
           <<0, 1, 0, 5>>, <<W16 - 1, W16 - 1, W16 - 1, W16 - 1>>, <<32768, 0, 0, 0>>}
ByteBuffers == {NullBytes, <<>>, <<97>>, <<97, 0, 98>>, <<0, 0>>}

NextMarshal ==
    \/ \E h \in Handles, n \in Int64s : luau_pushinteger(h, n)
    \/ \E h \in Handles, idx \in {-1, 1} : luau_tointeger(h, idx)
    \/ \E h \in Handles, s \in ByteBuffers :
          \E len \in IF s = NullBytes THEN {0} ELSE 0..Len(s) : luau_pushlstring(h, s, len)
    \/ \E h \in Handles, idx \in {-1, 1} : luau_tolstring(h, idx)
    \/ \E h \in Handles : luau_pop(h, 1)

SpecMarshal == Init /\ [][NextMarshal]_vars

\* C13: luau_tointeger(-1) right after luau_pushinteger(n) returns n, for
\* every 64-bit n; luau_tolstring(-1, &out) right after
\* luau_pushlstring(s, len) returns the first len bytes of s with out = len,
\* zero bytes included.
C13_PushReadRoundTrip ==
    [][/\ (/\ ev.op = "luau_pushinteger" /\ ev.h = "root"
           /\ ev'.op = "luau_tointeger" /\ ev'.h = "root" /\ ev'.arg = -1) =>
            ev'.r = ev.arg
       /\ (/\ ev.op = "luau_pushlstring" /\ ev.h = "root" /\ ev.arg[1] # NullBytes
           /\ ev'.op = "luau_tolstring" /\ ev'.h = "root" /\ ev'.arg = -1) =>
            ev'.r = [s |-> SubSeq(ev.arg[1], 1, ev.arg[2]), len |-> ev.arg[2]]]_vars

(* ------------------------------- teardown ------------------------------ *)

\* A luau_close that frees the wrapper and leaves its VM open.
luau_close_leak(h) ==
    /\ UNCHANGED <<wr, stack, globals, frames, bytecode, lastSet>>
    /\ ev' = Event("luau_close", h, NULL, NULL, "none")
    /\ vm' = IF h = NULL THEN vm ELSE [vm EXCEPT !.freed = @ \cup {h}]

\* luau_close(L): lua_close of the VM handle when it is not null, then
\* delete of the wrapper.  lua_close destroys the VM's stack and globals,
\* and every thread of its heap.
luau_close(h) ==
    /\ UNCHANGED <<wr, frames, bytecode, lastSet>>
    /\ ev' = Event("luau_close", h, NULL, NULL, "none")
    /\ IF h = NULL
       THEN UNCHANGED <<stack, globals, vm>>
       ELSE IF wr[h].L # NULL
            THEN /\ vm' = [vm EXCEPT !.closes = @ + 1, !.freed = @ \cup {h},
                                      !.co = [c \in CoWrappers |->
                                                 IF @[c].thread = "live"
                                                 THEN [@[c] EXCEPT !.thread = "closed", !.stack = <<>>]
                                                 ELSE @[c]]]
                 /\ stack' = <<>>
                 /\ globals' = [n \in DOMAIN globals |-> Nil]
            ELSE /\ vm' = [vm EXCEPT !.freed = @ \cup {h}]
                 /\ UNCHANGED <<stack, globals>>

\* The wrappers the host may still pass: a wrapper is not used after its
\* luau_close (a double destroy is undefined, and the caller's to avoid),
\* and the VM is not torn down from inside a callback.
Usable == Handles \ vm.freed

NextClose ==
    \/ ~InDispatcher /\ \E h \in Usable : luau_close(h)
    \/ \E h \in Usable : luau_pushnil(h)
    \/ \E h \in Usable : luau_pop(h, 1)
    \/ \E h \in Usable : luau_gettop(h)
    \/ \E h \in Usable, source \in {"return 7", "error('boom', 0)", "return f()"} :
          luau_dostring(h, source, 0, NULL, FALSE)
    \/ \E h \in Usable : luau_registerexternal(h, "f", Ids[1])
    \/ \E h \in Usable, callback \in {NULL, "c1"} : luau_setexternalcallback(h, callback)
    \/ \E h \in Usable : luau_geterror(h)
    \/ \E h \in Usable : luau_clearerror(h)
    \/ \E h \in {"root"} \cap Usable : luau_error(h, "oops")
    \/ InDispatcher /\ "root" \in Usable /\ DispatcherReturn(0)

SpecClose == Init /\ [][NextClose]_vars

\* C14: the VM of the root wrapper is destroyed by luau_close of the root
\* wrapper and by nothing else, and at most once; luau_close of the live
\* root does destroy it; luau_close(NULL) and luau_close of a wrapper whose
\* VM handle is null close no VM.
C14_VmDestroyedOnceByClose ==
    [][/\ vm'.closes # vm.closes =>
            /\ ev'.op = "luau_close" /\ ev'.h = "root"
            /\ vm.closes = 0 /\ vm'.closes = 1
       /\ (ev'.op = "luau_close" /\ ev'.h = "root") =>
            /\ vm'.closes = 1
            /\ "root" \in vm'.freed
       /\ (ev'.op = "luau_close" /\ ev'.h \in {NULL, "zero"}) =>
            /\ vm'.closes = vm.closes
            /\ UNCHANGED <<stack, globals>>]_vars

\* the root was closed after the wrapper with a null VM handle had been
\* closed, which closed no VM
C14_Witness ==
    /\ ev.op = "luau_close" /\ ev.h = "root"
    /\ vm.closes = 1
    /\ vm.freed = {"root", "zero"}

(* ------------------------------ coroutines ----------------------------- *)

\* The coroutine functions are declared in luau_wrapper.h; their bodies are
\* not part of luau_wrapper.cpp, and are modelled from their declarations
\* and the coroutine bridge's description.

LUAU_COSTAT_OK == 0
LUAU_COSTAT_YIELD == 1
LUAU_COSTAT_ERRRUN == 2
LUAU_COSTAT_ERRSYNTAX == 3
LUAU_COSTAT_ERRMEM == 4
LUAU_COSTAT_ERRERR == 5
LUAU_COSTAT_BREAK == 6

\* the thread value lua_newthread pushes
ThreadVal(c) == [t |-> "thread", c |-> c]

\* The coroutine wrappers the host holds, and those whose thread is alive:
\* a wrapper is not passed after its luau_close_thread, and a thread is not
\* driven after the luau_close of its root.
CoHeld == {c \in CoWrappers : vm.co[c].wrapper = "live"}
CoUsable == {c \in CoHeld : vm.co[c].thread = "live"}

\* luau_newthread(L): a new thread of L's heap, pushed onto the stack of L,
\* and a new wrapper for it; NULL for an invalid L.
luau_newthread(h) ==
    IF ~Valid(h)
    THEN /\ ev' = Event("luau_newthread", h, NULL, NULL, "none")
         /\ UNCHANGED <<wr, stack, globals, frames, bytecode, lastSet, vm>>
    ELSE \E c \in CoWrappers :
            /\ vm.co[c].wrapper = "none"
            /\ Fits(frames, stack, 1)
            /\ stack' = Append(stack, ThreadVal(c))
            /\ vm' = [vm EXCEPT !.co[c] = [NoThread EXCEPT !.wrapper = "live", !.thread = "live"]]
            /\ ev' = Event("luau_newthread", h, NULL, c, "none")
            /\ UNCHANGED <<wr, globals, frames, bytecode, lastSet>>

\* A luau_close_thread that closes the wrapper's VM handle as luau_close does.
luau_close_thread_vm(c) ==
    /\ ev' = Event("luau_close_thread", c, NULL, NULL, "none")
    /\ UNCHANGED <<wr, frames, bytecode, lastSet>>
    /\ IF c = NULL
       THEN UNCHANGED <<stack, globals, vm>>
       ELSE /\ vm' = [vm EXCEPT !.closes = @ + 1,
                                 !.co = [d \in CoWrappers |->
                                            [@[d] EXCEPT !.thread = IF @ = "live" THEN "closed" ELSE @,
                                                         !.stack = <<>>,
                                                         !.wrapper = IF d = c THEN "freed" ELSE @]]]
            /\ stack' = <<>>
            /\ globals' = [n \in DOMAIN globals |-> Nil]

\* luau_close_thread(L): frees the wrapper luau_newthread allocated; the
\* thread stays with the heap that owns it.
luau_close_thread(c) ==
    /\ ev' = Event("luau_close_thread", c, NULL, NULL, "none")
    /\ UNCHANGED <<wr, stack, globals, frames, bytecode, lastSet>>
    /\ vm' = IF c = NULL THEN vm ELSE [vm EXCEPT !.co[c].wrapper = "freed"]

\* luau_loadbytecode, luau_pushnil and luau_settop with a coroutine's
\* wrapper: they act on the thread's own stack.
luau_loadbytecode_thread(c, bc, chunkname) ==
    LET T == vm.co[c]
        name == IF chunkname = NULL THEN "=chunk" ELSE chunkname
        ld == luau_load(name, bc)
    IN /\ UNCHANGED <<wr, stack, globals, frames, bytecode, lastSet>>
       /\ IF bc = NullBuffer
          THEN /\ vm' = vm
               /\ ev' = Event("luau_loadbytecode", c, bc, LUAU_ERR_INVALID, "none")
          ELSE IF ld.status # 0
               THEN /\ vm' = [vm EXCEPT !.co[c].lastError = ld.v.s]
                    /\ ev' = Event("luau_loadbytecode", c, bc, LUAU_ERR_COMPILE, "none")
               ELSE /\ Len(T.stack) < MaxStack
                    /\ vm' = [vm EXCEPT !.co[c].lastError = "",
                                        !.co[c].stack = Append(@, ld.v)]
                    /\ ev' = Event("luau_loadbytecode", c, bc, LUAU_OK, "none")

luau_pushnil_thread(c) ==
    /\ Len(vm.co[c].stack) < MaxStack
    /\ vm' = [vm EXCEPT !.co[c].stack = Append(@, Nil)]
    /\ ev' = Event("luau_pushnil", c, NULL, NULL, "none")
    /\ UNCHANGED <<wr, stack, globals, frames, bytecode, lastSet>>

luau_settop_thread(c, idx) ==
    /\ idx \in 0..Len(vm.co[c].stack)
    /\ vm' = [vm EXCEPT !.co[c].stack = SubSeq(@, 1, idx)]
    /\ ev' = Event("luau_settop", c, idx, NULL, "none")
    /\ UNCHANGED <<wr, stack, globals, frames, bytecode, lastSet>>

\* the statuses a coroutine does not leave
TerminalErrors ==
    {LUAU_COSTAT_ERRRUN, LUAU_COSTAT_ERRSYNTAX, LUAU_COSTAT_ERRMEM, LUAU_COSTAT_ERRERR}

\* What the thread's function does when it is driven with the values
\* args: at its start, or from the yield it is suspended in.  `fault` is
\* what the VM runs out of on the way: nothing, memory ("mem"), or C stack
\* while it handles an error ("err").
Drive(T, fv, args, fault) ==
    IF fault = "mem"
    THEN [status |-> LUAU_COSTAT_ERRMEM, stack |-> <<Str("not enough memory")>>]
    ELSE IF T.status = LUAU_COSTAT_YIELD
    THEN [status |-> LUAU_COSTAT_OK, stack |-> args]
    ELSE IF fv.t = "function" /\ fv.f = "lua"
    THEN LET p == Program(fv.src) IN
         CASE p.op = "ret" -> [status |-> LUAU_COSTAT_OK, stack |-> p.vals]
           [] p.op = "yield" -> [status |-> LUAU_COSTAT_YIELD, stack |-> p.vals]
           [] p.op = "error" ->
                IF fault = "err"
                THEN [status |-> LUAU_COSTAT_ERRERR, stack |-> <<Str("error in error handling")>>]
                ELSE [status |-> LUAU_COSTAT_ERRRUN, stack |-> <<p.v>>]
           [] OTHER -> [status |-> LUAU_COSTAT_ERRRUN,
                        stack |-> <<Str("attempt to call a nil value")>>]
    ELSE [status |-> LUAU_COSTAT_ERRRUN,
          stack |-> <<Str("attempt to call a " \o fv.t \o " value")>>]

\* A luau_resume that drives a coroutine whatever its status.
luau_resume_always(c, from, nargs, fault) ==
    LET T == vm.co[c]
        yielded == T.status = LUAU_COSTAT_YIELD
        need == IF yielded THEN nargs ELSE nargs + 1
    IN /\ UNCHANGED <<wr, stack, globals, frames, bytecode, lastSet>>
       /\ Len(T.stack) >= need
       /\ LET fv == IF yielded THEN Nil ELSE T.stack[Len(T.stack) - nargs]
              args == SubSeq(T.stack, Len(T.stack) - nargs + 1, Len(T.stack))
              out == Drive(T, fv, args, fault)
              top == out.stack[Len(out.stack)]
          IN /\ vm' = [vm EXCEPT !.co[c].status = out.status,
                                 !.co[c].stack = out.stack,
                                 !.co[c].lastError =
                                     IF out.status \in TerminalErrors /\ lua_isstring(top)
                                     THEN lua_tostring(top) ELSE @]
             /\ ev' = Event("luau_resume", c, nargs, out.status, "run")

\* luau_resume(L, from, nargs): a coroutine in a terminal error state is not
\* driven, and its status is the result; else the nargs values on the
\* coroutine's own stack are consumed and it is driven until it yields,
\* completes or faults.
luau_resume(c, from, nargs, fault) ==
    IF vm.co[c].status \in TerminalErrors
    THEN /\ ev' = Event("luau_resume", c, nargs, vm.co[c].status, "none")
         /\ UNCHANGED <<wr, stack, globals, frames, bytecode, lastSet, vm>>
    ELSE luau_resume_always(c, from, nargs, fault)

\* luau_status(L): the thread's status
luau_status(c) ==
    /\ ev' = Event("luau_status", c, NULL, vm.co[c].status, "none")
    /\ UNCHANGED <<wr, stack, globals, frames, bytecode, lastSet, vm>>

\* the chunks a coroutine is given to run
CoSources == {"return 7", "error('boom', 0)", "return coroutine.yield(1)"}

\* Creating, loading, driving and closing coroutines of the root wrapper,
\* next to running chunks on the root and closing it.  One of the two
\* coroutines is given code to run.
Driven == CoUsable \cap {"co1"}

NextCo ==
    \/ \E h \in Usable : luau_newthread(h)
    \/ \E c \in {NULL} \cup CoHeld : luau_close_thread(c)
    \/ ~InDispatcher /\ \E h \in {"root"} \cap Usable : luau_close(h)
    \/ \E h \in {"root"} \cap Usable : luau_dostring(h, "return", 0, NULL, FALSE)
    \/ \E h \in {"root"} \cap Usable : luau_settop(h, 0)
    \/ \E c \in Driven, source \in CoSources \cup {"x = = 1"} :
          luau_loadbytecode_thread(c, luacode_compile(source, FALSE), NULL)
    \/ \E c \in Driven : luau_pushnil_thread(c)
    \/ \E c \in Driven : luau_settop_thread(c, 0)
    \/ \E c \in Driven, nargs \in 0..1, fault \in {"none", "mem", "err"} :
          luau_resume(c, "root", nargs, fault)
    \/ \E c \in CoUsable : luau_status(c)

SpecCo == Init /\ [][NextCo]_vars

\* C15: luau_close_thread of a coroutine wrapper frees that wrapper and
\* nothing else: no VM is closed, the root wrapper is not freed, the root's
\* stack, the globals and the thread itself are as before, and a chunk run
\* on the root afterwards succeeds as long as the root is open; luau_close
\* of the root leaves no coroutine of it alive.
C15_CloseThreadFreesOnlyWrapper ==
    [][/\ (ev'.op = "luau_close_thread" /\ ev'.h \in CoWrappers) =>
            /\ vm'.co[ev'.h].wrapper = "freed"
            /\ vm'.closes = vm.closes
            /\ vm'.freed = vm.freed
            /\ vm'.co[ev'.h].thread = vm.co[ev'.h].thread
            /\ \A d \in CoWrappers \ {ev'.h} : vm'.co[d] = vm.co[d]
            /\ UNCHANGED <<wr, stack, globals, frames>>
       /\ (ev'.op = "luau_dostring" /\ ev'.h = "root" /\ vm.closes = 0) =>
            ev'.r = LUAU_OK
       /\ (ev'.op = "luau_close" /\ ev'.h = "root") =>
            \A c \in CoWrappers : vm'.co[c].thread # "live"
       /\ vm'.closes = 1 => \A c \in CoWrappers : vm'.co[c].thread # "live"]_vars

\* a chunk ran on the root after one coroutine wrapper was freed, while the
\* other coroutine is still held and alive
C15_Witness ==
    /\ ev.op = "luau_dostring" /\ ev.h = "root" /\ ev.r = LUAU_OK
    /\ vm.co["co1"].wrapper = "freed" /\ vm.co["co1"].thread = "live"
    /\ vm.co["co2"].wrapper = "live" /\ vm.co["co2"].thread = "live"
    /\ vm.closes = 0

\* C16: luau_resume of a coroutine whose status is ERRRUN, ERRSYNTAX, ERRMEM
\* or ERRERR runs no guest code, changes nothing of the VM and returns that
\* status; no call changes such a status, and luau_status returns it.
C16_TerminalResumeRunsNothing ==
    [][/\ (ev'.op = "luau_resume" /\ vm.co[ev'.h].status \in TerminalErrors) =>
            /\ ev'.ext = "none"
            /\ ev'.r = vm.co[ev'.h].status
            /\ UNCHANGED <<vm, wr, stack, globals, frames>>
       /\ \A c \in CoWrappers :
            vm.co[c].status \in TerminalErrors => vm'.co[c].status = vm.co[c].status
       /\ ev'.op = "luau_status" => ev'.r = vm'.co[ev'.h].status]_vars

\* a coroutine that ran out of memory was given a new function and was
\* resumed again
C16_Witness ==
    /\ ev.op = "luau_resume" /\ ev.h = "co1" /\ ev.ext = "none"
    /\ ev.r = LUAU_COSTAT_ERRMEM
    /\ vm.co["co1"].status = LUAU_COSTAT_ERRMEM
    /\ vm.co["co1"].stack = <<LuaFn("return 7")>>

(* ------------------------- compiling to bytecode ----------------------- *)

\* C17: luau_compile with non-null arguments returns LUAU_OK exactly when
\* the guest compiler returned a buffer that is not null, not empty and
\* whose first byte is not zero, and then the caller's outputs hold that
\* buffer and its length; otherwise it returns LUAU_ERR_COMPILE and the
\* outputs hold a null buffer and the length 0.
C17_CompileOutputs ==
    [][(ev'.op = "luau_compile" /\ NULL \notin {ev'.arg[1], ev'.arg[2], ev'.arg[3]}) =>
          LET bc == Compiled(ev'.arg[1], ev'.arg[4])
              good == bc # NullBuffer /\ bc.len > 0 /\ bc.ver # 0
          IN /\ ev'.r = LUAU_OK <=> good
             /\ good => bytecode' = [buf |-> bc, len |-> bc.len]
             /\ ~good => /\ ev'.r = LUAU_ERR_COMPILE
                         /\ bytecode' = [buf |-> NullBuffer, len |-> 0]]_vars

\* the compiler returned an empty buffer while the outputs held the
\* bytecode of an earlier call: the outputs were reset
C17_Witness ==
    /\ ev.op = "luau_compile" /\ ev.arg = <<"return 7", "ptr", "ptr", "empty">>
    /\ ev.r = LUAU_ERR_COMPILE
    /\ bytecode = [buf |-> NullBuffer, len |-> 0]
    /\ stack = <<LuaFn("return 7")>>

(* ------------------- the current callback identifier ------------------- *)

\* C18: while a dispatched callback with identifier K is executing (it is
\* the innermost one that has not ended), the wrapper's current callback
\* id is K, also after a nested external function has returned.
C18_IdHeldWhileCallbackRuns ==
    InDispatcher => wr[get_luau_state].currentCallbackId = Top.id

\* C19: whenever no external callback is executing, the wrapper's current
\* callback id is 0, also after a callback ended by raising a guest error.
C19_IdZeroOutsideCallbacks ==
    ~InDispatcher => wr[get_luau_state].currentCallbackId = Zero64

(* ------------------ external functions called in coroutines ------------ *)

\* One external function that takes an argument, called by the guest in
\* the main thread and in a coroutine the guest makes; the dispatcher reads
\* its argument and pushes its result through the wrapper it is handed.
NextThread ==
    \/ ~InDispatcher /\ luau_registerexternal("root", "f", Ids[1])
    \/ \E callback \in {NULL, "c1"} : luau_setexternalcallback("root", callback)
    \/ \E source \in {"return f(5)", "return coroutine.wrap(f)(5)"} :
          luau_dostring("root", source, 0, NULL, FALSE)
    \/ \E n \in {<<0, 0, 0, 7>>, <<0, 0, 0, 5>>} : luau_pushinteger("root", n)
    \/ luau_tointeger("root", 1)
    \/ luau_gettop("root")
    \/ luau_settop("root", 0)
    \/ \E n \in 0..1 : DispatcherReturn(n)

SpecThread == Init /\ [][NextThread]_vars

\* C20: when the dispatcher is called for an external function, the stack
\* its wrapper addresses holds the call's arguments, slot 1 being the first,
\* also when the call runs in a coroutine; and when it returns n, the top n
\* values of that stack are the results the guest's call returns.
C20_HostAddressesExecutingThread ==
    [][/\ ev'.ext = "enter" => stack' = Top'.args
       /\ (ev'.ext = "return" /\ ev'.op = "luau_dostring" /\ ev'.r = LUAU_OK) =>
            \E n \in 0..Len(stack) :
               stack' = Top.base \o SubSeq(stack, Len(stack) - n + 1, Len(stack))]_vars

(* -------------------- the stack after a failed call -------------------- *)

\* C21: when luau_pcall returns LUAU_ERR_RUNTIME, the function, its nargs
\* arguments and the error value are gone from the stack, and when
\* luau_dostring fails, the stack is as high as before the call, whatever
\* the type of the error value.  (For a call that was suspended in a
\* dispatcher, the height before the call is that of the frame's base plus
\* the function and its arguments.)
C21_FailedCallLeavesNoErrorValue ==
    [][(ev'.op \in {"luau_pcall", "luau_dostring"} /\ ev'.h = "root"
        /\ ev'.r \in {LUAU_ERR_COMPILE, LUAU_ERR_RUNTIME}) =>
          IF ev'.ext \in {"return", "raise"}
          THEN Len(stack') = Len(Top.base)
          ELSE IF ev'.op = "luau_pcall"
               THEN Len(stack') = Len(stack) - ev'.arg - 1
               ELSE Len(stack') = Len(stack)]_vars

(* ------------------- the last error after a failure -------------------- *)

\* Running, loading and calling on the root wrapper, with chunks that raise
\* an empty message and with an external function whose dispatcher raises
\* through luau_error, under the guest's pcall or not.
NextError ==
    \/ \E source \in {"return 7", "x = = 1", "error('boom', 0)", "error('', 0)",
                       "return f()", "pcall(f)"} :
          luau_dostring("root", source, 0, NULL, FALSE)
    \/ \E source \in {"return 7", "error('', 0)"} :
          luau_loadbytecode("root", luacode_compile(source, FALSE), NULL)
    \/ luau_loadbytecode("root", Garbage, NULL)
    \/ luau_pcall("root", 0, 0)
    \/ ~InDispatcher /\ luau_registerexternal("root", "f", Ids[1])
    \/ luau_setexternalcallback("root", "c1")
    \/ \E msg \in {"", "oops"} : luau_error("root", msg)
    \/ DispatcherReturn(0)
    \/ luau_geterror("root")
    \/ luau_clearerror("root")

SpecError == Init /\ [][NextError]_vars

\* C22: once luau_dostring, luau_loadbytecode or luau_pcall has returned
\* from a call with valid arguments, luau_geterror yields a message (the
\* last error is not empty) exactly when the call returned LUAU_ERR_COMPILE
\* or LUAU_ERR_RUNTIME, and absence exactly when it returned LUAU_OK.
C22_ErrorMessageIffFailure ==
    (ev.op \in {"luau_dostring", "luau_loadbytecode", "luau_pcall"} /\ ev.h = "root") =>
        /\ ev.r \in {LUAU_ERR_COMPILE, LUAU_ERR_RUNTIME} => wr["root"].lastError # ""
        /\ ev.r = LUAU_OK => wr["root"].lastError = ""

(* ------------------------ function registration ------------------------ *)

\* lua_pushcclosure(cfunc_wrapper, debugname, 1) over the function pointer
CFunc(fn) == [t |-> "function", f |-> "cfunc_wrapper", up |-> <<fn>>]

\* a table with its string-keyed fields (lua_newtable: all of them nil)
FieldNames == {"f", "g"}
TableOf(fields) == [t |-> "table", fields |-> fields]
NewTable == TableOf([n \in FieldNames |-> Nil])
HasFields(v) == v.t = "table" /\ "fields" \in DOMAIN v

\* A LuauReg array as the entries in front of its sentinel; the null array.
RegArray(entries) == [entries |-> entries]
NullArray == [nullptr |-> TRUE]

\* luau_pushcfunction on the stack stk: nothing is pushed for a null fn
pushcfunction(stk, fn) == IF fn = NULL THEN stk ELSE Append(stk, CFunc(fn))

\* The loop of luau_register over the entries from the i-th on:
\* luau_pushcfunction, then lua_setglobal, which pops the top of the stack
\* into the global.  `ok` is FALSE when the stack has no room for the
\* function, or lua_setglobal finds the frame empty (which is not modelled).
RECURSIVE register(_, _, _, _)
register(stk, gl, entries, i) ==
    IF i > Len(entries) THEN [ok |-> TRUE, stack |-> stk, globals |-> gl]
    ELSE LET e == entries[i]
             pushed == pushcfunction(stk, e.func)
         IN IF ~Fits(frames, pushed, 0) \/ pushed = <<>>
            THEN [ok |-> FALSE, stack |-> stk, globals |-> gl]
            ELSE register(SubSeq(pushed, 1, Len(pushed) - 1),
                          [gl EXCEPT ![e.name] = pushed[Len(pushed)]],
                          entries, i + 1)

luau_register(h, funcs) ==
    /\ UNCHANGED <<wr, frames, bytecode, lastSet, vm>>
    /\ ev' = Event("luau_register", h, funcs, NULL, "none")
    /\ IF ~Valid(h) \/ funcs = NullArray
       THEN UNCHANGED <<stack, globals>>
       ELSE LET res == register(stack, globals, funcs.entries, 1) IN
            /\ res.ok
            /\ stack' = res.stack
            /\ globals' = res.globals

\* The loop of luau_setfuncs: luau_pushcfunction, then lua_setfield(-2),
\* which stores the top of the stack in the table below it and pops it.
\* `ok` is FALSE when the stack has no room, or the value at -2 is missing
\* or no table (lua_setfield then raises or reads below the frame, which is
\* not modelled).
RECURSIVE setfuncs(_, _, _)
setfuncs(stk, entries, i) ==
    IF i > Len(entries) THEN [ok |-> TRUE, stack |-> stk]
    ELSE LET e == entries[i]
             pushed == pushcfunction(stk, e.func)
             n == Len(pushed)
         IN IF ~Fits(frames, pushed, 0) \/ n < 2
            THEN [ok |-> FALSE, stack |-> stk]
            ELSE IF ~HasFields(pushed[n - 1])
                 THEN [ok |-> FALSE, stack |-> stk]
                 ELSE setfuncs([j \in 1..(n - 1) |->
                                  IF j = n - 1
                                  THEN TableOf([pushed[j].fields EXCEPT ![e.name] = pushed[n]])
                                  ELSE pushed[j]],
                               entries, i + 1)

luau_setfuncs(h, funcs) ==
    /\ UNCHANGED <<wr, globals, frames, bytecode, lastSet, vm>>
    /\ ev' = Event("luau_setfuncs", h, funcs, NULL, "none")
    /\ IF ~Valid(h) \/ funcs = NullArray
       THEN UNCHANGED stack
       ELSE LET res == setfuncs(stack, funcs.entries, 1) IN
            /\ res.ok
            /\ stack' = res.stack

luau_newtable(h) ==
    /\ UNCHANGED <<wr, globals, frames, bytecode, lastSet, vm>>
    /\ ev' = Event("luau_newtable", h, NULL, NULL, "none")
    /\ IF ~Valid(h)
       THEN UNCHANGED stack
       ELSE /\ Fits(frames, stack, 1)
            /\ stack' = Append(stack, NewTable)

\* The arrays the host passes: up to two entries in front of the sentinel,
\* each with a name and with a function pointer that may be null.
RegEntries == [name : FieldNames, func : {NULL, "fn1"}]
RegArrays ==
    {RegArray(<<>>)} \cup {RegArray(<<a>>) : a \in RegEntries}
        \cup {RegArray(<<[name |-> "f", func |-> "fn1"], b>>) : b \in RegEntries}

\* Registering functions as globals and into tables, next to the stack
\* operations that put values and tables in place.
NextReg ==
    \/ \E funcs \in RegArrays \cup {NullArray} : luau_register("root", funcs)
    \/ \E funcs \in RegArrays \cup {NullArray} : luau_setfuncs("root", funcs)
    \/ \E h \in {NULL, "zero"} : luau_register(h, RegArray(<<[name |-> "f", func |-> "fn1"]>>))
    \/ \E h \in {NULL, "zero"} : luau_setfuncs(h, RegArray(<<[name |-> "f", func |-> "fn1"]>>))
    \/ luau_newtable("root")
    \/ luau_pushnil("root")
    \/ luau_pop("root", 1)
    \/ luau_gettop("root")

SpecReg == Init /\ [][NextReg]_vars

\* the names of an array's entries
RegNames(funcs) == {funcs.entries[i].name : i \in 1..Len(funcs.entries)}

\* C23: luau_register and luau_setfuncs with a valid wrapper and an array
\* leave the height of the stack and the values on it as they were (but
\* for the fields that luau_setfuncs sets in the table on top), and change
\* no global and no field but those the entries name.
C23_RegistrationKeepsStack ==
    [][(ev'.op \in {"luau_register", "luau_setfuncs"} /\ ev'.h = "root"
        /\ ev'.arg # NullArray) =>
          /\ Len(stack') = Len(stack)
          /\ \A n \in FieldNames \ RegNames(ev'.arg) : globals'[n] = globals[n]
          /\ IF ev'.op = "luau_register"
             THEN stack' = stack
             ELSE /\ globals' = globals
                  /\ \A i \in 1..(Len(stack) - 1) : stack'[i] = stack[i]
                  /\ stack # <<>> =>
                       IF HasFields(stack[Len(stack)])
                       THEN /\ HasFields(stack'[Len(stack)])
                            /\ \A n \in FieldNames \ RegNames(ev'.arg) :
                                 stack'[Len(stack)].fields[n] = stack[Len(stack)].fields[n]
                       ELSE stack'[Len(stack)] = stack[Len(stack)]]_vars

====
